---- MODULE Spec2Model ----
(***************************************************************************)
(* Voxel model loader and face-culling mesher (src/src/graphics.rs).       *)
(*                                                                         *)
(* Numbers.  TLC's integers are 32-bit signed, so a u32 cannot be a TLC    *)
(* integer.  Every u32 / usize / f32 value of the program is therefore a   *)
(* natural number written as its little-endian sequence of base-256        *)
(* digits without leading zero digits: 0 is << >>, 300 is <<44, 1>>,       *)
(* u32::MAX is <<255, 255, 255, 255>>.  u32 arithmetic is done exactly on  *)
(* these numbers and then reduced to 32 bits the way the build does it:    *)
(* a build with overflow checks (debug) panics, one without (release)      *)
(* keeps the low 32 bits.  Bytes of the stream and of the grid are plain   *)
(* integers 0..255.                                                        *)
(***************************************************************************)
EXTENDS Integers, Sequences, FiniteSets, TLC

VARIABLES
    overflow_checks,  \* TRUE: arithmetic overflow panics (debug profile)
    stream,           \* the bytes the Read hands out, in order
    pos,              \* number of bytes of stream consumed so far
    pc,               \* where main() is
    voxel_model,      \* the VoxelModel being filled in / returned
    slice,            \* polygonise: the outer loop variable of the current pass
    result,           \* polygonise: the quads collected so far
    call,             \* make_quad called on its own: its arguments
    quad              \* make_quad called on its own: what it returned

vars == <<overflow_checks, stream, pos, pc, voxel_model, slice, result, call, quad>>

(***************************************************************************)
(* Exact natural-number arithmetic on little-endian base-256 digits.       *)
(***************************************************************************)
RECURSIVE Norm(_)
Norm(a) ==
    IF a = << >> THEN << >>
    ELSE IF a[Len(a)] = 0 THEN Norm(SubSeq(a, 1, Len(a) - 1))
    ELSE a

RECURSIVE FromNat(_)
FromNat(n) == IF n = 0 THEN << >> ELSE <<n % 256>> \o FromNat(n \div 256)

\* Only for numbers below 2^31.
RECURSIVE ToNat(_)
ToNat(a) == IF a = << >> THEN 0 ELSE Head(a) + 256 * ToNat(Tail(a))

RECURSIVE AddDigits(_, _, _)
AddDigits(a, b, c) ==
    IF a = << >> /\ b = << >>
    THEN (IF c = 0 THEN << >> ELSE <<c>>)
    ELSE LET da == IF a = << >> THEN 0 ELSE Head(a)
             db == IF b = << >> THEN 0 ELSE Head(b)
             ta == IF a = << >> THEN << >> ELSE Tail(a)
             tb == IF b = << >> THEN << >> ELSE Tail(b)
             s  == da + db + c
         IN  <<s % 256>> \o AddDigits(ta, tb, s \div 256)

NatAdd(a, b) == Norm(AddDigits(a, b, 0))

RECURSIVE MulDigit(_, _, _)
MulDigit(a, d, c) ==
    IF a = << >>
    THEN (IF c = 0 THEN << >> ELSE <<c>>)
    ELSE LET s == Head(a) * d + c
         IN  <<s % 256>> \o MulDigit(Tail(a), d, s \div 256)

RECURSIVE MulDigits(_, _)
MulDigits(a, b) ==
    IF a = << >> \/ b = << >> THEN << >>
    ELSE AddDigits(MulDigit(b, Head(a), 0), <<0>> \o MulDigits(Tail(a), b), 0)

NatMul(a, b) == Norm(MulDigits(a, b))

RECURSIVE LessFrom(_, _, _)
LessFrom(a, b, i) ==
    IF i = 0 THEN FALSE
    ELSE IF a[i] # b[i] THEN a[i] < b[i]
    ELSE LessFrom(a, b, i - 1)

\* a < b, both without leading zero digits
NatLess(a, b) ==
    IF Len(a) # Len(b) THEN Len(a) < Len(b) ELSE LessFrom(a, b, Len(a))

NatLeq(a, b) == ~NatLess(b, a)

(***************************************************************************)
(* u32                                                                     *)
(***************************************************************************)
U32_MAX == <<255, 255, 255, 255>>

FitsU32(a) == Len(a) <= 4

\* the low 32 bits
WrapU32(a) == Norm(SubSeq(a, 1, IF Len(a) < 4 THEN Len(a) ELSE 4))

\* A u32 expression either has a value or panics (arithmetic overflow in a
\* build with overflow checks); PANIC stands for the latter and is no number.
PANIC == <<-1>>

\* What a u32 `+` or `*` whose exact result is n evaluates to
Arith(checks, n) ==
    IF FitsU32(n) THEN n ELSE IF checks THEN PANIC ELSE WrapU32(n)

\* a + b and a * b on u32; a panic in an operand is a panic of the whole
add_u32(checks, a, b) ==
    IF a = PANIC \/ b = PANIC THEN PANIC ELSE Arith(checks, NatAdd(a, b))

mul_u32(checks, a, b) ==
    IF a = PANIC \/ b = PANIC THEN PANIC ELSE Arith(checks, NatMul(a, b))

RECURSIVE PredDigits(_)
PredDigits(a) ==
    IF Head(a) > 0 THEN <<Head(a) - 1>> \o Tail(a)
    ELSE <<255>> \o PredDigits(Tail(a))

\* Mutant of wrapping_sub_1: x.saturating_sub(1), which stays at 0
saturating_sub_1(x) == IF x = << >> THEN << >> ELSE Norm(PredDigits(x))

\* x.wrapping_sub(1)
wrapping_sub_1(x) == IF x = << >> THEN U32_MAX ELSE Norm(PredDigits(x))

One == <<1>>

\* `v as f32`: the nearest number with a 24-bit significand, ties to even.
\* A u32 below 2^24 has at most three digits and is kept; otherwise the top
\* digit t has n significant bits (1..8), the low n bits of the number are
\* dropped and the rest is rounded on them.
BitLen(t) ==
    IF t >= 128 THEN 8 ELSE IF t >= 64 THEN 7 ELSE IF t >= 32 THEN 6
    ELSE IF t >= 16 THEN 5 ELSE IF t >= 8 THEN 4 ELSE IF t >= 4 THEN 3
    ELSE IF t >= 2 THEN 2 ELSE 1

as_f32(v) ==
    IF Len(v) < 4 THEN v
    ELSE LET n     == BitLen(v[4])
             unit  == 2 ^ n
             low   == v[1] % unit
             kept  == [v EXCEPT ![1] = v[1] - low]
             odd   == IF n = 8 THEN v[2] % 2 = 1 ELSE (v[1] \div unit) % 2 = 1
             up    == 2 * low > unit \/ (2 * low = unit /\ odd)
         IN  IF up THEN NatAdd(kept, FromNat(unit)) ELSE Norm(kept)

(***************************************************************************)
(* Colour, VoxelModel, Direction, Vertex, Quad                             *)
(***************************************************************************)
PALETTE_SIZE == 256

BLACK == [r |-> 0, g |-> 0, b |-> 0]

Direction == {"Up", "Down", "East", "West", "North", "South"}

\* VoxelModel::index.  Err(()) out of bounds; otherwise the u32 expression
\* z + y * depth + x * height * depth, as usize.
Indexed(i) == IF i = PANIC THEN [tag |-> "Panic"] ELSE [tag |-> "Ok", val |-> i]

index(self, checks, x, y, z) ==
    IF NatLeq(self.width, x) \/ NatLeq(self.height, y) \/ NatLeq(self.depth, z)
    THEN [tag |-> "Err"]
    ELSE Indexed(add_u32(checks,
                         add_u32(checks, z, mul_u32(checks, y, self.depth)),
                         mul_u32(checks, mul_u32(checks, x, self.height), self.depth)))

\* Mutant of Lookup: no test for 255, every stored byte is looked up
Lookup_SentinelAsColour(self, i) ==
    IF i.tag # "Ok" THEN i
    ELSE IF NatLeq(FromNat(Len(self.data)), i.val) THEN [tag |-> "Panic"]
    ELSE [tag |-> "Ok", some |-> TRUE,
          colour |-> self.palette[self.data[ToNat(i.val) + 1]]]

\* VoxelModel::at, after `let index = self.index(x, y, z)?`.  Ok(None),
\* Ok(Some(colour)), Err(()), or a panic: of the index arithmetic, or of
\* self.data[index] past the end of the vector.
Lookup(self, i) ==
    IF i.tag # "Ok" THEN i
    ELSE IF NatLeq(FromNat(Len(self.data)), i.val) THEN [tag |-> "Panic"]
    ELSE IF self.data[ToNat(i.val) + 1] = 255 THEN [tag |-> "Ok", some |-> FALSE]
    ELSE [tag |-> "Ok", some |-> TRUE,
          colour |-> self.palette[self.data[ToNat(i.val) + 1]]]

at(self, checks, x, y, z) == Lookup(self, index(self, checks, x, y, z))

\* Direction::step.  `+ 1` is a checked u32 addition, `- 1` wraps.
step(checks, dir, x, y, z) ==
    CASE dir = "Up"    -> <<x, add_u32(checks, y, One), z>>
      [] dir = "Down"  -> <<x, wrapping_sub_1(y), z>>
      [] dir = "East"  -> <<add_u32(checks, x, One), y, z>>
      [] dir = "West"  -> <<wrapping_sub_1(x), y, z>>
      [] dir = "North" -> <<x, y, add_u32(checks, z, One)>>
      [] dir = "South" -> <<x, y, wrapping_sub_1(z)>>

\* The closure v of make_quad: a Vertex of the three coordinates `as f32`
Vertex(x, y, z) == [x |-> as_f32(x), y |-> as_f32(y), z |-> as_f32(z)]

\* The match of make_quad
Template(side, x, y, z, x1, y1, z1) ==
    CASE side = "Up"    -> <<Vertex( x, y1,  z), Vertex(x1, y1,  z), Vertex(x1, y1, z1), Vertex( x, y1, z1)>>
      [] side = "Down"  -> <<Vertex( x,  y,  z), Vertex( x,  y, z1), Vertex(x1,  y, z1), Vertex(x1,  y,  z)>>
      [] side = "East"  -> <<Vertex(x1,  y,  z), Vertex(x1,  y, z1), Vertex(x1, y1, z1), Vertex(x1, y1,  z)>>
      [] side = "West"  -> <<Vertex( x,  y,  z), Vertex( x, y1,  z), Vertex( x, y1, z1), Vertex( x,  y, z1)>>
      [] side = "North" -> <<Vertex( x,  y, z1), Vertex( x, y1, z1), Vertex(x1, y1, z1), Vertex(x1,  y, z1)>>
      [] side = "South" -> <<Vertex( x,  y,  z), Vertex(x1,  y,  z), Vertex(x1, y1,  z), Vertex( x, y1,  z)>>

Made(side, x, y, z, x1, y1, z1) ==
    IF x1 = PANIC \/ y1 = PANIC \/ z1 = PANIC
    THEN [panic |-> TRUE, vertices |-> << >>]
    ELSE [panic |-> FALSE, vertices |-> Template(side, x, y, z, x1, y1, z1)]

\* make_quad.  x1, y1, z1 are computed before the match, whatever the side.
make_quad(checks, side, x, y, z) ==
    Made(side, x, y, z,
         add_u32(checks, x, One), add_u32(checks, y, One), add_u32(checks, z, One))

\* The closure add_quad of polygonise.  layer is [panic, quads]; once a call
\* has panicked nothing more is evaluated.
Dead(layer) == [panic |-> TRUE, quads |-> layer.quads]

\* ... the push
Push(layer, dir, c, made) ==
    IF made.panic THEN Dead(layer)
    ELSE [panic |-> FALSE,
          quads |-> Append(layer.quads,
                           [vertices |-> made.vertices, colour |-> c, side |-> dir])]

\* Mutant of Unblocked: an out-of-bounds neighbour hides the face too
Unblocked_ErrBlocks(checks, layer, dir, x, y, z, c, neigh) ==
    IF neigh.tag = "Panic" THEN Dead(layer)
    ELSE IF neigh.tag = "Err" \/ neigh.some THEN layer
    ELSE Push(layer, dir, c, make_quad(checks, dir, x, y, z))

\* ... `if neigh.unwrap_or(None).is_some() { return; }`
Unblocked(checks, layer, dir, x, y, z, c, neigh) ==
    IF neigh.tag = "Panic" THEN Dead(layer)
    ELSE IF neigh.tag = "Ok" /\ neigh.some THEN layer
    ELSE Push(layer, dir, c, make_quad(checks, dir, x, y, z))

\* ... `let neigh = self.at(neigh_pos[0], neigh_pos[1], neigh_pos[2])`
Neighbour(self, checks, layer, dir, x, y, z, c, neigh_pos) ==
    IF PANIC \in {neigh_pos[1], neigh_pos[2], neigh_pos[3]} THEN Dead(layer)
    ELSE Unblocked(checks, layer, dir, x, y, z, c,
                   at(self, checks, neigh_pos[1], neigh_pos[2], neigh_pos[3]))

\* ... `colour.map(|c| ...)` on the result of expect()
Mapped(self, checks, layer, dir, x, y, z, colour) ==
    IF colour.tag # "Ok" THEN Dead(layer)
    ELSE IF ~colour.some THEN layer
    ELSE Neighbour(self, checks, layer, dir, x, y, z, colour.colour,
                   step(checks, dir, x, y, z))

add_quad(self, checks, layer, dir, x, y, z) ==
    IF layer.panic THEN layer
    ELSE Mapped(self, checks, layer, dir, x, y, z, at(self, checks, x, y, z))

\* Mutant of Loops: the north/south pass with its two inner loops swapped
Loops_InnerSwapped(pass) ==
    CASE pass = "east_west" ->
           [first |-> "East", second |-> "West", outer |-> 1, middle |-> 2, inner |-> 3]
      [] pass = "up_down" ->
           [first |-> "Up", second |-> "Down", outer |-> 2, middle |-> 1, inner |-> 3]
      [] pass = "north_south" ->
           [first |-> "North", second |-> "South", outer |-> 3, middle |-> 1, inner |-> 2]

\* The three passes of polygonise: the directions of the two add_quad calls
\* of the loop body, and which of x (1), y (2), z (3) the outer, the middle
\* and the innermost loop run over.
Loops(pass) ==
    CASE pass = "east_west" ->
           [first |-> "East", second |-> "West", outer |-> 1, middle |-> 2, inner |-> 3]
      [] pass = "up_down" ->
           [first |-> "Up", second |-> "Down", outer |-> 2, middle |-> 1, inner |-> 3]
      [] pass = "north_south" ->
           [first |-> "North", second |-> "South", outer |-> 3, middle |-> 2, inner |-> 1]

\* The bound of a loop over axis 1, 2 or 3: 0..self.width, 0..self.height, 0..self.depth
Limit(self, axis) == <<self.width, self.height, self.depth>>[axis]

\* <<x, y, z>> of the loop body, from the loop variables i (outer), a, b
Cell(pass, i, a, b) ==
    [axis \in 1..3 |-> IF axis = Loops(pass).outer THEN i
                       ELSE IF axis = Loops(pass).middle THEN a ELSE b]

\* The loop body: add_quad on the first layer, then on the second
Second(self, checks, pass, c, acc, l1) ==
    [panic  |-> add_quad(self, checks, [panic |-> l1.panic, quads |-> acc.second],
                         Loops(pass).second, c[1], c[2], c[3]).panic,
     first  |-> l1.quads,
     second |-> add_quad(self, checks, [panic |-> l1.panic, quads |-> acc.second],
                         Loops(pass).second, c[1], c[2], c[3]).quads]

Body(self, checks, pass, c, acc) ==
    Second(self, checks, pass, c, acc,
           add_quad(self, checks, [panic |-> FALSE, quads |-> acc.first],
                    Loops(pass).first, c[1], c[2], c[3]))

\* The two inner loops of slice i
RECURSIVE InnerLoops(_, _, _, _, _, _, _)
InnerLoops(self, checks, pass, i, a, b, acc) ==
    IF acc.panic \/ ~NatLess(a, Limit(self, Loops(pass).middle)) THEN acc
    ELSE IF ~NatLess(b, Limit(self, Loops(pass).inner))
    THEN InnerLoops(self, checks, pass, i, NatAdd(a, One), << >>, acc)
    ELSE InnerLoops(self, checks, pass, i, a, NatAdd(b, One),
                    Body(self, checks, pass, Cell(pass, i, a, b), acc))

\* The two layers of slice i of a pass
Layers(self, checks, pass, i) ==
    InnerLoops(self, checks, pass, i, << >>, << >>,
               [panic |-> FALSE, first |-> << >>, second |-> << >>])

(***************************************************************************)
(* The input files                                                         *)
(***************************************************************************)
MaxDim == 2
MaxVariant == 7

\* u32::to_le_bytes
LE32(v) == [i \in 1..4 |-> IF i <= Len(v) THEN v[i] ELSE 0]

\* Cell i of variant v is empty when bit (i mod 3) of v is set; its palette
\* index otherwise is 0 in variant 0 and spread over 0..254 in the others.
GridByte(v, i) ==
    IF (v \div (2 ^ (i % 3))) % 2 = 1 THEN 255 ELSE (v * 37 + (i % 2) * v * 109) % 255

\* Byte k of the palette section.  Variant 0 starts with 63, 0, 0.
PaletteByte(v, k) ==
    IF k % 3 = 0 THEN (63 + (k \div 3) * 7 + v) % 256
    ELSE (v * k * 11 + (k \div 3) * 3) % 256

SmallDims == {FromNat(n) : n \in 0..MaxDim}

\* Dimensions whose product does not fit a u32: 2^16 * 2^16 * 1 = 2^32,
\* 2^16 * 2^16 * 2 = 2^33 and (2^31 + 1) * 2 * 1 = 2^32 + 2.
WideDims == {<<<<0, 0, 1>>, <<0, 0, 1>>, <<1>>>>,
             <<<<0, 0, 1>>, <<0, 0, 1>>, <<2>>>>,
             <<<<1, 0, 0, 128>>, <<2>>, <<1>>>>}

Dims == (SmallDims \X SmallDims \X SmallDims) \cup WideDims

\* The exact product of the three dimensions
Volume(d) == NatMul(NatMul(d[1], d[2]), d[3])

\* A file of the format for dimensions d: header, grid, palette, carrying
\* as many grid bytes as the low 32 bits of the volume say.
FileBytes(d, v) ==
    LET n == ToNat(WrapU32(Volume(d)))
    IN  LE32(d[1]) \o LE32(d[2]) \o LE32(d[3])
        \o [i \in 1..n |-> GridByte(v, i - 1)]
        \o [k \in 1..(3 * PALETTE_SIZE) |-> PaletteByte(v, k - 1)]

\* The lengths a file is cut to (or padded to, by one byte)
Lengths(full, n) ==
    {l \in {0, 3, 4, 11, 12 + n - 1, 12 + n, 12 + n + 1, full - 1, full, full + 1} : l >= 0}

\* The first l bytes of f, padded with zero bytes when l is beyond its end
Cut(f, l) == [i \in 1..l |-> IF i <= Len(f) THEN f[i] ELSE 0]

(***************************************************************************)
(* main(): load_model, then polygonise                                     *)
(***************************************************************************)
NoCall == [side |-> "none", x |-> << >>, y |-> << >>, z |-> << >>]
NoQuad == [panic |-> FALSE, vertices |-> << >>]

Init ==
    /\ overflow_checks \in BOOLEAN
    /\ \E d \in Dims, v \in 0..MaxVariant :
          LET f == FileBytes(d, v)
          IN  \E l \in Lengths(Len(f), ToNat(WrapU32(Volume(d)))) : stream = Cut(f, l)
    /\ pos = 0
    /\ pc = "read_width"
    /\ voxel_model = [width |-> << >>, height |-> << >>, depth |-> << >>,
                      palette |-> [i \in 0..(PALETTE_SIZE - 1) |-> BLACK],
                      data |-> << >>]
    /\ slice = << >>
    /\ result = << >>
    /\ call = NoCall
    /\ quad = NoQuad

\* read_u32::<LE>: the next four bytes, least significant first
read_u32_LE(s, p) ==
    IF Len(s) - p < 4 THEN [eof |-> TRUE, val |-> << >>]
    ELSE [eof |-> FALSE, val |-> Norm(SubSeq(s, p + 1, p + 4))]

\* Mutant of shl2: the product clamped to the largest u8
shl2_Clamped(b) == IF b * 4 > 255 THEN 255 ELSE b * 4

\* `b << 2` on a u8
shl2(b) == (b * 4) % 256

ReadField(here, field, next) ==
    /\ pc = here
    /\ LET r == read_u32_LE(stream, pos)
       IN  IF r.eof
           THEN /\ pc' = "io_error"
                /\ UNCHANGED <<pos, voxel_model>>
           ELSE /\ pc' = next
                /\ pos' = pos + 4
                /\ voxel_model' = [voxel_model EXCEPT ![field] = r.val]
    /\ UNCHANGED <<overflow_checks, stream, slice, result, call, quad>>

ReadWidth  == ReadField("read_width", "width", "read_height")
ReadHeight == ReadField("read_height", "height", "read_depth")
ReadDepth  == ReadField("read_depth", "depth", "read_data")

\* The length of the data vector: (width * height * depth) as usize
DataLen(self, checks) ==
    mul_u32(checks, mul_u32(checks, self.width, self.height), self.depth)

\* vec![0; ...] and read_exact
ReadData ==
    /\ pc = "read_data"
    /\ LET n == DataLen(voxel_model, overflow_checks)
       IN  IF n = PANIC
           THEN /\ pc' = "panicked"
                /\ UNCHANGED <<pos, voxel_model>>
           ELSE IF NatLess(FromNat(Len(stream) - pos), n)
           THEN /\ pc' = "io_error"
                /\ UNCHANGED <<pos, voxel_model>>
           ELSE /\ pc' = "read_palette"
                /\ pos' = pos + ToNat(n)
                /\ voxel_model' = [voxel_model EXCEPT
                                     !.data = SubSeq(stream, pos + 1, pos + ToNat(n))]
    /\ UNCHANGED <<overflow_checks, stream, slice, result, call, quad>>

\* The palette loop, and Ok(voxel_model)
ReadPalette ==
    /\ pc = "read_palette"
    /\ IF Len(stream) - pos < 3 * PALETTE_SIZE
       THEN /\ pc' = "io_error"
            /\ UNCHANGED <<pos, voxel_model>>
       ELSE /\ pc' = "loaded"
            /\ pos' = pos + 3 * PALETTE_SIZE
            /\ voxel_model' = [voxel_model EXCEPT !.palette =
                 [i \in 0..(PALETTE_SIZE - 1) |->
                    [r |-> shl2(stream[pos + 3 * i + 1]),
                     g |-> shl2(stream[pos + 3 * i + 2]),
                     b |-> shl2(stream[pos + 3 * i + 3])]]]
    /\ UNCHANGED <<overflow_checks, stream, slice, result, call, quad>>

\* model.polygonise(): let mut result = Vec::new()
PolygoniseBegin ==
    /\ pc = "loaded"
    /\ pc' = "east_west"
    /\ slice' = << >>
    /\ result' = << >>
    /\ UNCHANGED <<overflow_checks, stream, pos, voxel_model, call, quad>>

\* One iteration of the outer loop of a pass
Slice(pass) ==
    /\ pc = pass
    /\ NatLess(slice, Limit(voxel_model, Loops(pass).outer))
    /\ LET l == Layers(voxel_model, overflow_checks, pass, slice)
       IN  IF l.panic
           THEN /\ pc' = "panicked"
                /\ UNCHANGED <<slice, result>>
           ELSE /\ pc' = pc
                /\ slice' = NatAdd(slice, One)
                /\ result' = result \o l.first \o l.second
    /\ UNCHANGED <<overflow_checks, stream, pos, voxel_model, call, quad>>

EastWestSlice   == Slice("east_west")
UpDownSlice     == Slice("up_down")
NorthSouthSlice == Slice("north_south")

\* The end of an outer loop: on to the next pass
EndPass(pass, next) ==
    /\ pc = pass
    /\ ~NatLess(slice, Limit(voxel_model, Loops(pass).outer))
    /\ pc' = next
    /\ slice' = << >>
    /\ UNCHANGED <<overflow_checks, stream, pos, voxel_model, result, call, quad>>

EndEastWest   == EndPass("east_west", "up_down")
EndUpDown     == EndPass("up_down", "north_south")
\* ... and polygonise returns result
EndNorthSouth == EndPass("north_south", "done")

Next ==
    \/ ReadWidth
    \/ ReadHeight
    \/ ReadDepth
    \/ ReadData
    \/ ReadPalette
    \/ PolygoniseBegin
    \/ EastWestSlice
    \/ EndEastWest
    \/ UpDownSlice
    \/ EndUpDown
    \/ NorthSouthSlice
    \/ EndNorthSouth

Spec == Init /\ [][Next]_vars

(***************************************************************************)
(* make_quad on its own: every direction, on cells near the origin and on  *)
(* cells whose coordinates need more than 24 bits.  A cell of a grid has   *)
(* coordinates below the dimensions, hence below u32::MAX.                 *)
(***************************************************************************)
MaxCoord == 2

\* 2^24 - 1, 2^24, 2^24 + 1 and u32::MAX - 1
WideCoords == {<<255, 255, 255>>, <<0, 0, 0, 1>>, <<1, 0, 0, 1>>, <<254, 255, 255, 255>>}

Coords == {FromNat(n) : n \in 0..MaxCoord} \cup WideCoords

InitQuad ==
    /\ overflow_checks \in BOOLEAN
    /\ stream = << >>
    /\ pos = 0
    /\ pc = "make_quad"
    /\ voxel_model = [width |-> << >>, height |-> << >>, depth |-> << >>,
                      palette |-> [i \in 0..(PALETTE_SIZE - 1) |-> BLACK],
                      data |-> << >>]
    /\ slice = << >>
    /\ result = << >>
    /\ call \in [side : Direction, x : Coords, y : Coords, z : Coords]
    /\ quad = NoQuad

MakeQuad ==
    /\ pc = "make_quad"
    /\ pc' = "made"
    /\ quad' = make_quad(overflow_checks, call.side, call.x, call.y, call.z)
    /\ UNCHANGED <<overflow_checks, stream, pos, voxel_model, slice, result, call>>

NextQuad == MakeQuad

SpecQuad == InitQuad /\ [][NextQuad]_vars

(***************************************************************************)
(* The grid and its faces in ordinary integers, for the properties.  Used  *)
(* only where the dimensions are small: a grid polygonise has got through. *)
(***************************************************************************)
W == ToNat(voxel_model.width)
H == ToNat(voxel_model.height)
D == ToNat(voxel_model.depth)

Cells == (0..(W - 1)) \X (0..(H - 1)) \X (0..(D - 1))

InGrid(x, y, z) == x \in 0..(W - 1) /\ y \in 0..(H - 1) /\ z \in 0..(D - 1)

\* The byte stored for cell (x, y, z), z varying fastest
ByteAt(x, y, z) == voxel_model.data[z + y * D + x * H * D + 1]

Solid(x, y, z) == InGrid(x, y, z) /\ ByteAt(x, y, z) # 255

\* The unit step (dx, dy, dz) of a direction
Delta(dir) ==
    CASE dir = "Up" -> <<0, 1, 0>>    [] dir = "Down" -> <<0, -1, 0>>
      [] dir = "East" -> <<1, 0, 0>>  [] dir = "West" -> <<-1, 0, 0>>
      [] dir = "North" -> <<0, 0, 1>> [] dir = "South" -> <<0, 0, -1>>

\* The face of solid cell (x, y, z) toward dir has no solid cell in front
Visible(x, y, z, dir) ==
    /\ Solid(x, y, z)
    /\ ~Solid(x + Delta(dir)[1], y + Delta(dir)[2], z + Delta(dir)[3])

\* The values one coordinate takes on the face toward dir of the unit cell
\* at c: both ends of [c, c + 1], or the one end the face lies at
FaceRange(c, d) == IF d = 1 THEN {c + 1} ELSE IF d = -1 THEN {c} ELSE {c, c + 1}

FaceCorners(x, y, z, dir) ==
    {[x |-> FromNat(cx), y |-> FromNat(cy), z |-> FromNat(cz)] :
        cx \in FaceRange(x, Delta(dir)[1]),
        cy \in FaceRange(y, Delta(dir)[2]),
        cz \in FaceRange(z, Delta(dir)[3])}

VerticesOf(q) == {q.vertices[k] : k \in DOMAIN q.vertices}

\* q is the quad of the face of cell (x, y, z) toward dir
IsQuadOf(q, x, y, z, dir) ==
    /\ q.side = dir
    /\ Len(q.vertices) = 4
    /\ VerticesOf(q) = FaceCorners(x, y, z, dir)
    /\ q.colour = voxel_model.palette[ByteAt(x, y, z)]

Least(S) == CHOOSE m \in S : \A n \in S : m <= n

\* The cell a quad lies on: its least corner, one back along a positive side
CellOf(q) ==
    <<Least({ToNat(q.vertices[k].x) : k \in DOMAIN q.vertices})
        - (IF q.side = "East" THEN 1 ELSE 0),
      Least({ToNat(q.vertices[k].y) : k \in DOMAIN q.vertices})
        - (IF q.side = "Up" THEN 1 ELSE 0),
      Least({ToNat(q.vertices[k].z) : k \in DOMAIN q.vertices})
        - (IF q.side = "North" THEN 1 ELSE 0)>>

Emitted(x, y, z, dir) ==
    \E k \in DOMAIN result : result[k].side = dir /\ CellOf(result[k]) = <<x, y, z>>

VisibleFaces == {f \in Cells \X Direction : Visible(f[1][1], f[1][2], f[1][3], f[2])}

\* C1: when polygonise returns, its result holds exactly one quad for each
\* pair (cell, direction) whose cell is solid and whose neighbour one step
\* in that direction is outside the grid or empty, and nothing else; each
\* quad has the cell's palette colour, the direction as its side and the
\* four corners of the cell's face toward the direction as its vertices.
C1_ExactlyTheVisibleFaces ==
    pc = "done" =>
      /\ Len(result) = Cardinality(VisibleFaces)
      /\ \A f \in VisibleFaces : Emitted(f[1][1], f[1][2], f[1][3], f[2])
      /\ \A k \in DOMAIN result :
           LET c == CellOf(result[k])
           IN  /\ Visible(c[1], c[2], c[3], result[k].side)
               /\ IsQuadOf(result[k], c[1], c[2], c[3], result[k].side)

\* polygonise has returned on a grid with an empty cell, a solid cell hidden
\* on one side by a solid neighbour, and a face open toward an empty cell
\* of the grid.
C1_Witness ==
    /\ pc = "done"
    /\ \E c \in Cells : ~Solid(c[1], c[2], c[3])
    /\ \E c \in Cells, dir \in Direction :
         /\ Solid(c[1], c[2], c[3])
         /\ Solid(c[1] + Delta(dir)[1], c[2] + Delta(dir)[2], c[3] + Delta(dir)[3])
         /\ ~Emitted(c[1], c[2], c[3], dir)
    /\ \E c \in Cells, dir \in Direction :
         /\ Visible(c[1], c[2], c[3], dir)
         /\ InGrid(c[1] + Delta(dir)[1], c[2] + Delta(dir)[2], c[3] + Delta(dir)[3])
         /\ Emitted(c[1], c[2], c[3], dir)

NoSentinel == \A i \in DOMAIN voxel_model.data : voxel_model.data[i] # 255

\* C2 as stated: when polygonise returns on a grid without a sentinel cell,
\* the result has 2 * (width * height + height * depth + width * depth)
\* quads, whatever the dimensions.
C2_Original ==
    (pc = "done" /\ NoSentinel) => Len(result) = 2 * (W * H + H * D + W * D)

\* C2 as amended: when polygonise returns on a grid without a sentinel cell,
\* the result has 2 * (width * height + height * depth + width * depth)
\* quads if all three dimensions are at least 1 and no quad if one of them
\* is 0; every quad has the palette colour of a cell of the grid.
C2_SolidGridSurface ==
    (pc = "done" /\ NoSentinel) =>
      /\ Len(result) = IF W = 0 \/ H = 0 \/ D = 0 THEN 0
                       ELSE 2 * (W * H + H * D + W * D)
      /\ \A k \in DOMAIN result :
           \E i \in DOMAIN voxel_model.data :
              result[k].colour = voxel_model.palette[voxel_model.data[i]]

\* polygonise has returned the 24 quads of the 2 x 2 x 2 grid whose cells
\* all hold palette index 0, each quad of colour (252, 0, 0).
C2_Witness ==
    /\ pc = "done"
    /\ voxel_model.width = <<2>> /\ voxel_model.height = <<2>> /\ voxel_model.depth = <<2>>
    /\ \A i \in DOMAIN voxel_model.data : voxel_model.data[i] = 0
    /\ Len(result) = 24
    /\ \A k \in DOMAIN result : result[k].colour = [r |-> 252, g |-> 0, b |-> 0]

\* Small coordinates and dimensions, with the two ends of the u32 range
ProbeCoords == {FromNat(n) : n \in 0..(MaxDim + 1)} \cup {U32_MAX}

\* The coordinate a direction moves along: x (1), y (2) or z (3)
AxisOf(dir) == CHOOSE a \in 1..3 : Delta(dir)[a] # 0

Loaded == pc \in {"loaded", "east_west", "up_down", "north_south", "done"}

\* C3: when polygonise returns, every solid cell with a coordinate at 0 or
\* at dimension - 1 has its quad facing out of the grid in the result; and
\* for a loaded grid, a step down from coordinate 0 yields u32::MAX on
\* that axis, which at() answers with Err whatever the dimensions are (so
\* no cell of the opposite face is read).
C3_BoundaryFacesEmitted ==
    /\ pc = "done" =>
         \A c \in Cells, dir \in Direction :
            (/\ Solid(c[1], c[2], c[3])
             /\ ~InGrid(c[1] + Delta(dir)[1], c[2] + Delta(dir)[2], c[3] + Delta(dir)[3]))
            => Emitted(c[1], c[2], c[3], dir)
    /\ Loaded =>
         \A dir \in {"Down", "West", "South"} :
            \A c \in ProbeCoords \X ProbeCoords \X ProbeCoords :
               c[AxisOf(dir)] = << >> =>
                  LET n == step(overflow_checks, dir, c[1], c[2], c[3])
                  IN  /\ n[AxisOf(dir)] = U32_MAX
                      /\ at(voxel_model, overflow_checks, n[1], n[2], n[3]).tag = "Err"
    /\ \A w \in ProbeCoords, a \in 1..3 :
          LET m == [width |-> w, height |-> w, depth |-> w, data |-> << >>,
                    palette |-> voxel_model.palette]
              c == [i \in 1..3 |-> IF i = a THEN U32_MAX ELSE << >>]
          IN  index(m, overflow_checks, c[1], c[2], c[3]).tag = "Err"

\* polygonise has returned on a grid at least 2 wide with solid cells at
\* both ends of a row: the cell at x = 0 has its West quad, although the
\* cell at x = width - 1 is solid.
C3_Witness ==
    /\ pc = "done"
    /\ W >= 2
    /\ \E y \in 0..(H - 1), z \in 0..(D - 1) :
          /\ Solid(0, y, z)
          /\ Solid(W - 1, y, z)
          /\ Emitted(0, y, z, "West")
          /\ Emitted(W - 1, y, z, "East")

\* Where a quad comes in the traversal: pass, slice, first or second
\* direction of the pass, middle loop, inner loop
PassOf(dir) ==
    CASE dir \in {"East", "West"} -> 1 [] dir \in {"Up", "Down"} -> 2
      [] dir \in {"North", "South"} -> 3

OrderKey(q) ==
    LET c == CellOf(q)
    IN  CASE PassOf(q.side) = 1 -> <<1, c[1], IF q.side = "East" THEN 0 ELSE 1, c[2], c[3]>>
          [] PassOf(q.side) = 2 -> <<2, c[2], IF q.side = "Up" THEN 0 ELSE 1, c[1], c[3]>>
          [] PassOf(q.side) = 3 -> <<3, c[3], IF q.side = "North" THEN 0 ELSE 1, c[2], c[1]>>

\* lexicographic order on keys of the same length
KeyLess(a, b) ==
    \E i \in DOMAIN a : a[i] < b[i] /\ \A j \in 1..(i - 1) : a[j] = b[j]

\* C9: in the result polygonise returns, East/West quads come before Up/Down
\* quads, which come before North/South quads; within a pair the quads are
\* in order of the cell's x, y, z respectively; within a slice the quads of
\* East, Up, North come before those of West, Down, South; and within one
\* direction of a slice the cells are in the order of the inner loops
\* (y then z; x then z; y then x).
C9_TraversalOrder ==
    pc = "done" =>
      \A k \in 1..(Len(result) - 1) : KeyLess(OrderKey(result[k]), OrderKey(result[k + 1]))

\* polygonise has returned, on a grid at least 2 x 2 x 2, a result with two
\* North quads of one slice whose cells differ in x and in y.
C9_Witness ==
    /\ pc = "done"
    /\ W >= 2 /\ H >= 2 /\ D >= 2
    /\ \E j, k \in DOMAIN result :
          /\ j < k
          /\ result[j].side = "North" /\ result[k].side = "North"
          /\ CellOf(result[j])[3] = CellOf(result[k])[3]
          /\ CellOf(result[j])[1] > CellOf(result[k])[1]
          /\ CellOf(result[j])[2] < CellOf(result[k])[2]
    /\ \E j, k \in DOMAIN result : result[j].side = "West" /\ result[k].side = "Up"

\* x >= width or y >= height or z >= depth
OutOfBounds(x, y, z) ==
    \/ NatLeq(voxel_model.width, x)
    \/ NatLeq(voxel_model.height, y)
    \/ NatLeq(voxel_model.depth, z)

\* C4 as stated: on the grid of a successful decode, at(x, y, z) is Err
\* exactly when x >= width or y >= height or z >= depth; otherwise it
\* neither fails nor reads past the end of data, and it is None when the
\* stored byte is 255 and Some(palette[byte]) when it is not.
C4_Original ==
    pc = "loaded" =>
      \A c \in ProbeCoords \X ProbeCoords \X ProbeCoords :
         LET r == at(voxel_model, overflow_checks, c[1], c[2], c[3])
         IN  /\ r.tag = "Err" <=> OutOfBounds(c[1], c[2], c[3])
             /\ ~OutOfBounds(c[1], c[2], c[3]) =>
                  /\ r.tag = "Ok"
                  /\ r.some <=> ByteAt(ToNat(c[1]), ToNat(c[2]), ToNat(c[3])) # 255
                  /\ r.some => r.colour = voxel_model.palette[
                                   ByteAt(ToNat(c[1]), ToNat(c[2]), ToNat(c[3]))]

\* The three dimensions the header of the stream states
HeaderDims ==
    <<Norm(SubSeq(stream, 1, 4)), Norm(SubSeq(stream, 5, 8)), Norm(SubSeq(stream, 9, 12))>>

\* The stream is shorter than 12 + width * height * depth + 768 bytes
\* (or than the 12 bytes of the header)
Short ==
    \/ Len(stream) < 12
    \/ NatLess(FromNat(Len(stream)),
               NatAdd(Volume(HeaderDims), FromNat(12 + 3 * PALETTE_SIZE)))

Loading == pc \in {"read_width", "read_height", "read_depth", "read_data", "read_palette"}

\* C5 as stated: on a stream shorter than 12 + width * height * depth + 768
\* bytes load_model ends with an I/O error and returns no VoxelModel; on
\* a stream at least that long it succeeds.
C5_Original ==
    /\ Short => (Loading \/ pc = "io_error")
    /\ ~Short => pc \notin {"io_error", "panicked"}

\* C6 as stated: the VoxelModel load_model returns has as many data bytes
\* as the exact product width * height * depth, and they are the stream
\* bytes that follow the 12-byte header, in order.
C6_Original ==
    pc = "loaded" =>
      /\ FromNat(Len(voxel_model.data))
           = Volume(<<voxel_model.width, voxel_model.height, voxel_model.depth>>)
      /\ voxel_model.data = SubSeq(stream, 13, 12 + Len(voxel_model.data))

\* Coordinates to compare indices at: the small ones and 2^15
IndexProbes == {FromNat(n) : n \in 0..MaxDim} \cup {<<0, 128>>}

ValidProbes ==
    {c \in IndexProbes \X IndexProbes \X IndexProbes : ~OutOfBounds(c[1], c[2], c[3])}

IndexOf(c) == index(voxel_model, overflow_checks, c[1], c[2], c[3])

\* C7 as stated: on a grid, index(x, y, z) is defined for all coordinates
\* below the dimensions, injective on them, below width * height * depth,
\* and takes every value below width * height * depth.
C7_Original ==
    pc = "loaded" =>
      /\ \A c \in ValidProbes :
            /\ IndexOf(c).tag = "Ok"
            /\ NatLess(IndexOf(c).val,
                       Volume(<<voxel_model.width, voxel_model.height, voxel_model.depth>>))
      /\ \A c1, c2 \in ValidProbes : IndexOf(c1).val = IndexOf(c2).val => c1 = c2
      /\ Len(voxel_model.data) > 0 =>
            \A n \in 0..(Len(voxel_model.data) - 1) :
               \E c \in ValidProbes : IndexOf(c).val = FromNat(n)

\* Raw byte k of the palette section of the stream, which follows the grid
Raw(k) == stream[12 + Len(voxel_model.data) + k + 1]

\* C8 as stated: after a successful load every channel of every palette
\* entry is 4 times its raw byte, r, g, b at palette offsets 3i, 3i+1, 3i+2.
C8_Original ==
    pc = "loaded" =>
      \A i \in 0..(PALETTE_SIZE - 1) :
         /\ voxel_model.palette[i].r = 4 * Raw(3 * i)
         /\ voxel_model.palette[i].g = 4 * Raw(3 * i + 1)
         /\ voxel_model.palette[i].b = 4 * Raw(3 * i + 2)

\* C8 as amended: after a successful load every channel of every palette
\* entry is 4 times the low six bits of its raw byte (the byte shifted left
\* by 2 within 8 bits), r, g, b at palette offsets 3i, 3i+1, 3i+2; that is 4
\* times the raw byte exactly when the raw byte is at most 63.
C8_PaletteShifted ==
    pc = "loaded" =>
      \A i \in 0..(PALETTE_SIZE - 1) :
         /\ voxel_model.palette[i].r = 4 * (Raw(3 * i) % 64)
         /\ voxel_model.palette[i].g = 4 * (Raw(3 * i + 1) % 64)
         /\ voxel_model.palette[i].b = 4 * (Raw(3 * i + 2) % 64)
         /\ Raw(3 * i) <= 63 => voxel_model.palette[i].r = 4 * Raw(3 * i)

\* A load has succeeded on a stream with grid data whose palette section
\* has a raw byte of at most 63, stored as 4 times itself, and a raw byte
\* above 63, stored as less than 4 times itself; entry 0 is (252, 0, 0).
C8_Witness ==
    /\ pc = "loaded"
    /\ Len(voxel_model.data) > 0
    /\ voxel_model.palette[0] = [r |-> 252, g |-> 0, b |-> 0]
    /\ \E i \in 0..(PALETTE_SIZE - 1) :
          Raw(3 * i + 1) \in 1..63 /\ voxel_model.palette[i].g = 4 * Raw(3 * i + 1)
    /\ \E i \in 0..(PALETTE_SIZE - 1) :
          Raw(3 * i + 2) > 63 /\ voxel_model.palette[i].b < 4 * Raw(3 * i + 2)

\* The sign of a - b
Sgn(a, b) == IF a = b THEN 0 ELSE IF NatLess(a, b) THEN -1 ELSE 1

\* The edge from vertex p to vertex q, by the signs of its components
Edge(p, q) == <<Sgn(q.x, p.x), Sgn(q.y, p.y), Sgn(q.z, p.z)>>

Cross(e, f) ==
    <<e[2] * f[3] - e[3] * f[2], e[3] * f[1] - e[1] * f[3], e[1] * f[2] - e[2] * f[1]>>

Dot(e, f) == e[1] * f[1] + e[2] * f[2] + e[3] * f[3]

\* The exact corners of the face toward dir of the unit cell at (x, y, z)
ExactRange(c, d) ==
    IF d = 1 THEN {NatAdd(c, One)} ELSE IF d = -1 THEN {c} ELSE {c, NatAdd(c, One)}

ExactCorners(x, y, z, dir) ==
    {[x |-> cx, y |-> cy, z |-> cz] :
        cx \in ExactRange(x, Delta(dir)[1]),
        cy \in ExactRange(y, Delta(dir)[2]),
        cz \in ExactRange(z, Delta(dir)[3])}

\* vs are the four corners of the face toward dir of the cell at (x, y, z),
\* all different, each next to the one before it (the first to the last),
\* wound so that the cross product of the first two edges points against
\* the direction's unit step
UnitFace(vs, x, y, z, dir) ==
    /\ Len(vs) = 4
    /\ Cardinality({vs[k] : k \in 1..4}) = 4
    /\ {vs[k] : k \in 1..4} = ExactCorners(x, y, z, dir)
    /\ \A k \in 1..4 :
          Dot(Edge(vs[k], vs[(k % 4) + 1]), Edge(vs[k], vs[(k % 4) + 1])) = 1
    /\ Dot(Cross(Edge(vs[1], vs[2]), Edge(vs[2], vs[3])), Delta(dir)) = -1

\* C10 as stated: for every direction and every cell, make_quad returns
\* the four distinct corners of the cell's face toward the direction, in
\* cyclic order, with the same winding for all six directions.
C10_Original ==
    pc = "made" =>
      /\ ~quad.panic
      /\ UnitFace(quad.vertices, call.x, call.y, call.z, call.side)
====
